---- MODULE Spec2Model ----
(***************************************************************************)
(* A model of the websocket session of axum-liveview (src/ws.rs): the      *)
(* select! loop of handle_socket, the decoder and the command dispatch of  *)
(* handle_message_from_socket, the encoder send_message_to_socket and the  *)
(* disconnect cleanup.  The client, the transport and the rendering engine *)
(* are the environment.                                                    *)
(***************************************************************************)
EXTENDS Naturals, Sequences, FiniteSets, TLC

\* ------------------------------------------------------------------ bounds
\* Frames the client writes to the connection over the session's life.
MaxFrames == 2
\* Deltas the rendering engine broadcasts on "rendered" topics.
MaxDeltas == 1
\* Faults of the collaborators over the session's life: a broadcast that fails,
\* a write to the connection that fails, a subscription the backend ends.
MaxFaults == 1

\* ------------------------------------------------------------------ values
\* View identifiers (Uuid): two distinct ones.
Views == {"V1", "V2"}
NoView == "none"

\* JSON values (serde_json::Value), by type and content.
JStr(s) == [type |-> "string", val |-> s]
JNull == [type |-> "null", val |-> ""]
JNum == [type |-> "number", val |-> "1"]
JObj == [type |-> "object", val |-> "n1"]
\* A key that the JSON object does not hold.
Absent == [type |-> "absent", val |-> ""]

\* Pub/sub payloads.  () is the empty marker, Json(x) carries the JSON value
\* x, a String is carried raw, html::Serialized and Diff are opaque.
Unit == [type |-> "unit", val |-> ""]
Json(x) == x
Raw(s) == [type |-> "raw", val |-> s]
Html(v) == [type |-> "html", val |-> v]
DiffPayload(k) == [type |-> "diff", val |-> ToString(k)]

INITIAL_RENDER_TOPIC == "i"
RENDERED_TOPIC == "r"

\* liveview_local_topic(liveview_id, name): one topic per (identifier, name).
liveview_local_topic(id, name) == <<id, name>>

\* ------------------------------------------------------------------ frames
\* The frames socket.recv() yields: a text frame (with the JSON text it
\* carries, parsed or unparsable) or a non-text frame.
TextFrame(id, topic, e, d, v) ==
    [kind |-> "text", json |-> "ok", liveview_id |-> id, topic |-> topic,
     data |-> [e |-> e, d |-> d, v |-> v]]
MountFrame(id) == TextFrame(id, "axum/mount-liveview", Absent, Absent, Absent)
ClickFrame(id, e, d) == TextFrame(id, "axum/live-click", JStr(e), d, Absent)
InputFrame(id, e, v) == TextFrame(id, "axum/live-input", JStr(e), Absent, JStr(v))
BinaryFrame == [TextFrame("V1", "axum/mount-liveview", Absent, Absent, Absent)
                    EXCEPT !.kind = "binary"]
GarbageFrame == [TextFrame("V1", "axum/mount-liveview", Absent, Absent, Absent)
                    EXCEPT !.json = "garbage"]
UnknownTagFrame == TextFrame("V1", "axum/unknown", JStr("inc"), Absent, Absent)
BadClickFrame == TextFrame("V1", "axum/live-click", JNum, JObj, Absent)
BadInputFrame == TextFrame("V1", "axum/live-input", JStr("inc"), Absent, JNum)

EventNames == {"inc", "rendered"}
MalformedFrames ==
    {BinaryFrame, GarbageFrame, UnknownTagFrame, BadClickFrame, BadInputFrame}
ValidFrames ==
    {MountFrame(id) : id \in Views}
    \cup {ClickFrame("V1", "inc", d) : d \in {Absent, JNull, JObj}}
    \cup {ClickFrame("V2", "rendered", JObj), InputFrame("V1", "inc", "abc"),
          InputFrame("V2", "rendered", "abc")}
Frames == ValidFrames \cup MalformedFrames

\* The class of a frame, read off the frame as the client wrote it.
FrameClass(f) ==
    CASE f \in MalformedFrames -> "malformed"
      [] f.topic = "axum/mount-liveview" -> "mount"
      [] f.topic = "axum/live-input" -> "input"
      [] f.data.d.type = "absent" -> "click"
      [] f.data.d.type = "null" -> "click_null"
      [] OTHER -> "click_data"

\* ----------------------------------------------------------------- decoder
NoMessage == [tag |-> "none", liveview_id |-> NoView, event_name |-> "",
              payload |-> Unit]

\* Mutant: the additional data is never forwarded.
DecodeLiveClickNoData(id, data) ==
    IF data.e.type # "string" THEN NoMessage
    ELSE [tag |-> "click", liveview_id |-> id, event_name |-> data.e.val,
          payload |-> Unit]

\* from_value::<LiveClick>(data): "e" must be a string; "d" is an
\* Option<Value>, None when the key is absent and also when it is null.
DecodeLiveClick(id, data) ==
    IF data.e.type # "string" THEN NoMessage
    ELSE [tag |-> "click", liveview_id |-> id, event_name |-> data.e.val,
          payload |-> IF data.d.type \in {"absent", "null"} THEN Unit ELSE Json(data.d)]

\* Mutant: the value is broadcast wrapped as a JSON string.
DecodeLiveInputWrapped(id, data) ==
    IF data.e.type # "string" \/ data.v.type # "string" THEN NoMessage
    ELSE [tag |-> "input", liveview_id |-> id, event_name |-> data.e.val,
          payload |-> Json(data.v)]

\* from_value::<LiveInput>(data): "e" and "v" must both be strings.
DecodeLiveInput(id, data) ==
    IF data.e.type # "string" \/ data.v.type # "string" THEN NoMessage
    ELSE [tag |-> "input", liveview_id |-> id, event_name |-> data.e.val,
          payload |-> Raw(data.v.val)]

\* Message::try_from(RawMessage): the match on the topic.
MessageTryFrom(raw) ==
    CASE raw.topic = "axum/mount-liveview" ->
            [tag |-> "mount", liveview_id |-> raw.liveview_id, event_name |-> "",
             payload |-> Unit]
      [] raw.topic = "axum/live-click" -> DecodeLiveClick(raw.liveview_id, raw.data)
      [] raw.topic = "axum/live-input" -> DecodeLiveInput(raw.liveview_id, raw.data)
      [] OTHER -> NoMessage

\* Mutant: the frame is not required to be a text frame.
DecodeAnyKind(msg) ==
    IF msg.json # "ok" THEN NoMessage ELSE MessageTryFrom(msg)

\* The three try_! steps at the head of handle_message_from_socket.
Decode(msg) ==
    IF msg.kind # "text" THEN NoMessage
    ELSE IF msg.json # "ok" THEN NoMessage
    ELSE MessageTryFrom(msg)

\* ------------------------------------------------------------------- state
VARIABLES
    pc,                     \* where handle_socket stands
    diff_streams,           \* state.diff_streams: the StreamMap's entries, in order
    inbound,                \* what socket.recv() yields next, when the client has written it
    recvClosed,             \* the inbound side is closed: end-of-stream follows inbound
    liveview_id,            \* the view identifier of the mount being handled
    initial_render_stream,  \* the one-shot subscription of the mount being handled
    html,                   \* the initial-render payload the mount returned
    liveview_ids,           \* the identifiers collected for the cleanup, not yet notified
    outbound,               \* the frames written to the connection
    broadcasts,             \* the session's pubsub.broadcast calls, with their outcome
    nFrames,                \* frames the client has written
    nDeltas,                \* deltas the engine has broadcast
    nFaults,                \* faults of the collaborators so far
    published,              \* views whose initial render the engine has published
    mounted_log,            \* per view: payloads broadcast on its "rendered" topic while
                            \*   the session held a live subscription for it
    handshake_lost,         \* deltas the engine broadcast for the view being mounted after
                            \*   it published the initial render, which reached no
                            \*   subscription of the session
    received,               \* the class of each frame socket.recv() has yielded, in order
    mount_log,              \* per mount frame dispatched: what the environment answered
    exit_keys               \* the mapping's keys when the loop exited

vars == <<pc, diff_streams, inbound, recvClosed, liveview_id, initial_render_stream,
          html, liveview_ids, outbound, broadcasts, nFrames, nDeltas, nFaults,
          published, mounted_log, handshake_lost, received, mount_log, exit_keys>>

Running == {"select", "mount_wait", "mount_sub", "send_i"}

NoStream == [open |-> FALSE, buf |-> <<>>, closed |-> FALSE]
NoHtml == Html(NoView)

\* SocketState::default(), and a connection on which nothing has happened.
Init ==
    /\ pc = "select"
    /\ diff_streams = <<>>
    /\ inbound = <<>>
    /\ recvClosed = FALSE
    /\ liveview_id = NoView
    /\ initial_render_stream = NoStream
    /\ html = NoHtml
    /\ liveview_ids = <<>>
    /\ outbound = <<>>
    /\ broadcasts = <<>>
    /\ nFrames = 0
    /\ nDeltas = 0
    /\ nFaults = 0
    /\ published = {}
    /\ mounted_log = [v \in Views |-> <<>>]
    /\ handshake_lost = {}
    /\ received = <<>>
    /\ mount_log = <<>>
    /\ exit_keys = {}

\* ------------------------------------------------------------- StreamMap
\* The keys of the entries, in the map's order.
RECURSIVE Keys(_)
Keys(streams) ==
    IF streams = <<>> THEN <<>> ELSE <<Head(streams).key>> \o Keys(Tail(streams))

KeySet(streams) == {streams[i].key : i \in DOMAIN streams}

\* StreamMap::remove(k): the entries without those of key k.
StreamMapRemove(streams, k) == SelectSeq(streams, LAMBDA en : en.key # k)

\* Mutant: the new entry is pushed without removing the entry of k.
StreamMapPush(streams, k, stream) ==
    Append(streams, [key |-> k, buf |-> stream, ended |-> FALSE])

\* Mutant: the subscription is dropped instead of being kept in the map.
StreamMapInsertDropped(streams, k, stream) == streams

\* StreamMap::insert(k, stream): the entry of k, if any, is removed (its stream
\* dropped) and the new entry pushed at the end.
StreamMapInsert(streams, k, stream) ==
    Append(StreamMapRemove(streams, k), [key |-> k, buf |-> stream, ended |-> FALSE])

\* Mutant: the poll drops every entry when one stream has ended.
SwapRemoveAll(streams, i) == <<>>

\* Vec::swap_remove(i), as StreamMap's poll does with an entry whose stream ended.
SwapRemove(streams, i) ==
    LET n == Len(streams)
        swapped == IF i = n THEN streams ELSE [streams EXCEPT ![i] = streams[n]]
    IN SubSeq(swapped, 1, n - 1)

\* --------------------------------------------------------------- pub/sub
\* A broadcast reaches the subscriptions that are open on its topic when it is
\* made: each gets the payload at the end of its stream.
Deliver(streams, topic, payload) ==
    [i \in DOMAIN streams |->
        IF liveview_local_topic(streams[i].key, "rendered") = topic /\ ~streams[i].ended
        THEN [streams[i] EXCEPT !.buf = Append(@, payload)]
        ELSE streams[i]]

DeliverOneShot(stream, id, topic, payload) ==
    IF stream.open /\ ~stream.closed /\ liveview_local_topic(id, "initial-render") = topic
    THEN [stream EXCEPT !.buf = Append(@, payload)]
    ELSE stream

\* Whether view v has a live delta subscription in the mapping.
Live(streams, v) == \E i \in DOMAIN streams : streams[i].key = v /\ ~streams[i].ended

\* The payloads broadcast on the "rendered" topic of a mounted view, as the
\* session's subscription is due them.
LogRendered(log, streams, topic, payload) ==
    [v \in Views |->
        IF liveview_local_topic(v, "rendered") = topic /\ Live(streams, v)
        THEN Append(log[v], payload)
        ELSE log[v]]

\* ---------------------------------------------------------------- client
\* The client writes one more frame to the connection, once the session has
\* received the one before (socket.recv() sees the frames one at a time).
ClientSend(f) ==
    /\ pc \in Running
    /\ ~recvClosed
    /\ inbound = <<>>
    /\ nFrames < MaxFrames
    /\ inbound' = Append(inbound, f)
    /\ nFrames' = nFrames + 1
    /\ UNCHANGED <<pc, diff_streams, recvClosed, liveview_id, initial_render_stream,
                   html, liveview_ids, outbound, broadcasts, nDeltas, published,
                   mounted_log, handshake_lost, received, mount_log, exit_keys, nFaults>>

\* The client closes the connection: socket.recv() yields None once the frames
\* written before have been received.
ClientClose ==
    /\ pc \in Running
    /\ ~recvClosed
    /\ recvClosed' = TRUE
    /\ UNCHANGED <<pc, diff_streams, inbound, liveview_id, initial_render_stream,
                   html, liveview_ids, outbound, broadcasts, nFrames, nFaults, nDeltas,
                   published, mounted_log, handshake_lost, received, mount_log, exit_keys>>

\* ---------------------------------------------------------------- engine
\* The mount of view v stands between the engine's publication of the initial
\* render and the subscription to topic(v, "rendered").
InHandshakeGap(v) ==
    /\ liveview_id = v
    /\ \/ pc = "mount_sub"
       \/ pc = "mount_wait" /\ initial_render_stream.buf # <<>>

\* The rendering engine answers a "mounted" broadcast: it publishes the view's
\* initial render on topic(v, "initial-render").
EngineInitialRender ==
    /\ pc = "mount_wait"
    /\ initial_render_stream.buf = <<>>
    /\ ~initial_render_stream.closed
    /\ initial_render_stream' =
          DeliverOneShot(initial_render_stream, liveview_id,
                         liveview_local_topic(liveview_id, "initial-render"),
                         Html(liveview_id))
    /\ published' = published \cup {liveview_id}
    /\ mount_log' = [mount_log EXCEPT ![Len(mount_log)].initial = "payload"]
    /\ UNCHANGED <<pc, diff_streams, inbound, recvClosed, liveview_id, html,
                   liveview_ids, outbound, broadcasts, nFrames, nFaults, nDeltas,
                   mounted_log, handshake_lost, received, exit_keys>>

\* The one-shot subscription ends without a value.
EngineCloseInitial ==
    /\ pc = "mount_wait"
    /\ nFaults < MaxFaults
    /\ nFaults' = nFaults + 1
    /\ initial_render_stream.buf = <<>>
    /\ ~initial_render_stream.closed
    /\ initial_render_stream' = [initial_render_stream EXCEPT !.closed = TRUE]
    /\ mount_log' = [mount_log EXCEPT ![Len(mount_log)].initial = "closed"]
    /\ UNCHANGED <<pc, diff_streams, inbound, recvClosed, liveview_id, html,
                   liveview_ids, outbound, broadcasts, nFrames, nDeltas, published,
                   mounted_log, handshake_lost, received, exit_keys>>

\* The engine broadcasts the next delta of a view it has rendered on
\* topic(v, "rendered").
EngineRendered(v) ==
    /\ pc \in Running
    /\ v \in published
    /\ nDeltas < MaxDeltas
    /\ nDeltas' = nDeltas + 1
    /\ LET topic == liveview_local_topic(v, "rendered")
           diff == DiffPayload(nDeltas + 1)
       IN /\ diff_streams' = Deliver(diff_streams, topic, diff)
          /\ mounted_log' = LogRendered(mounted_log, diff_streams, topic, diff)
          /\ handshake_lost' =
                IF InHandshakeGap(v) /\ ~Live(diff_streams, v)
                THEN handshake_lost \cup {diff}
                ELSE handshake_lost
    /\ UNCHANGED <<pc, inbound, recvClosed, liveview_id, initial_render_stream, html,
                   liveview_ids, outbound, broadcasts, nFrames, nFaults, published, mount_log,
                   received, exit_keys>>

\* The pub/sub backend ends the stream of one delta subscription, after the
\* payloads it delivered.
EngineEndStream(i) ==
    /\ pc \in Running
    /\ nFaults < MaxFaults
    /\ nFaults' = nFaults + 1
    /\ i \in DOMAIN diff_streams
    /\ ~diff_streams[i].ended
    /\ diff_streams[i].buf = <<>>
    /\ diff_streams' = [diff_streams EXCEPT ![i].ended = TRUE]
    /\ UNCHANGED <<pc, inbound, recvClosed, liveview_id, initial_render_stream, html,
                   liveview_ids, outbound, broadcasts, nFrames, nDeltas, published,
                   mounted_log, handshake_lost, received, mount_log, exit_keys>>

\* --------------------------------------------------------------- session
\* The outcomes a broadcast or a write to the connection can have.
Outcomes == IF nFaults < MaxFaults THEN BOOLEAN ELSE {TRUE}

\* json!([liveview_id, topic, msg]): the outbound envelope.
Envelope(id, tag, msg) == <<id, tag, msg>>

\* Mutant: the delta streams are polled while the "i" frame is still to be sent.
PollsDiffStreamsEarly(p) == p \in {"select", "send_i"}

\* The select! polls state.diff_streams.next() only while the loop awaits it.
PollsDiffStreams(p) == p = "select"

\* Mutant: the value is paired with the key of the first entry of the map.
FanInFirstKey(en) == <<diff_streams[1].key, Head(en.buf)>>

\* What StreamMap::next() yields for an entry whose stream has a value: the
\* entry's key and the value.
FanIn(en) == <<en.key, Head(en.buf)>>

\* Mutant: the result of the broadcast is ignored.
TryOkAlways(ok) == TRUE

\* try_!(result, Ok): the handler goes on only when the result is Ok.
TryOk(ok) == ok

\* Mutant: the first key is skipped.
CleanupIdsSkipFirst(streams) == IF streams = <<>> THEN <<>> ELSE Tail(Keys(streams))

\* The identifiers the cleanup notifies: the keys of state.diff_streams.
CleanupIds(streams) == Keys(streams)

\* Mutant: a broadcast that failed is made again.
SessionBroadcastRetried(at, topic, payload, ok) ==
    /\ broadcasts' =
          IF ok
          THEN Append(broadcasts, [at |-> at, topic |-> topic, payload |-> payload, ok |-> ok])
          ELSE broadcasts \o <<[at |-> at, topic |-> topic, payload |-> payload, ok |-> ok],
                                [at |-> at, topic |-> topic, payload |-> payload, ok |-> ok]>>
    /\ diff_streams' = IF ok THEN Deliver(diff_streams, topic, payload) ELSE diff_streams
    /\ mounted_log' = IF ok THEN LogRendered(mounted_log, diff_streams, topic, payload)
                      ELSE mounted_log

\* The session's pubsub.broadcast(topic, payload), with its outcome: the call is
\* logged, and a broadcast that succeeded reaches the open subscriptions.
SessionBroadcast(at, topic, payload, ok) ==
    /\ broadcasts' = Append(broadcasts,
          [at |-> at, topic |-> topic, payload |-> payload, ok |-> ok])
    /\ diff_streams' = IF ok THEN Deliver(diff_streams, topic, payload) ELSE diff_streams
    /\ mounted_log' = IF ok THEN LogRendered(mounted_log, diff_streams, topic, payload)
                      ELSE mounted_log

\* Mutant: the error is logged and the loop goes on.
BreakContinues ==
    /\ pc' = "select"
    /\ liveview_ids' = liveview_ids
    /\ exit_keys' = exit_keys

\* The loop breaks: the keys of the mapping are collected for the cleanup.
Break ==
    /\ pc' = "cleanup"
    /\ liveview_ids' = CleanupIds(diff_streams)
    /\ exit_keys' = KeySet(diff_streams)

\* socket.recv() yields Some(Err(_)): the transport breaks.
RecvError ==
    /\ pc = "select"
    /\ inbound = <<>>
    /\ ~recvClosed
    /\ received' = Append(received, "error")
    /\ Break
    /\ UNCHANGED <<diff_streams, inbound, recvClosed, liveview_id, initial_render_stream, html,
                   outbound, broadcasts, nFrames, nFaults, nDeltas, published, mounted_log,
                   handshake_lost, mount_log>>

\* socket.recv() yields a frame that one of the three try_! steps rejects:
\* handle_message_from_socket returns None.
RecvMalformed ==
    /\ pc = "select"
    /\ inbound # <<>>
    /\ Decode(Head(inbound)).tag = "none"
    /\ inbound' = Tail(inbound)
    /\ received' = Append(received, FrameClass(Head(inbound)))
    /\ UNCHANGED <<pc, diff_streams, recvClosed, liveview_id, initial_render_stream,
                   html, liveview_ids, outbound, broadcasts, nFrames, nFaults, nDeltas,
                   published, mounted_log, handshake_lost, mount_log, exit_keys>>

\* socket.recv() yields a click or an input frame: one broadcast on
\* topic(liveview_id, event_name), and None is returned whatever its outcome.
RecvEvent ==
    /\ pc = "select"
    /\ inbound # <<>>
    /\ Decode(Head(inbound)).tag \in {"click", "input"}
    /\ inbound' = Tail(inbound)
    /\ received' = Append(received, FrameClass(Head(inbound)))
    /\ LET msg == Decode(Head(inbound))
       IN \E ok \in Outcomes :
            /\ nFaults' = IF ok THEN nFaults ELSE nFaults + 1
            /\ SessionBroadcast("event",
                                liveview_local_topic(msg.liveview_id, msg.event_name),
                                msg.payload, ok)
    /\ UNCHANGED <<pc, recvClosed, liveview_id, initial_render_stream, html,
                   liveview_ids, outbound, nFrames, nDeltas, published,
                   handshake_lost, mount_log, exit_keys>>

\* socket.recv() yields a mount frame: the one-shot subscription to
\* "initial-render" is opened and "mounted" is broadcast; when the broadcast
\* fails the handler returns None, otherwise it awaits the initial render.
RecvMount ==
    /\ pc = "select"
    /\ inbound # <<>>
    /\ Decode(Head(inbound)).tag = "mount"
    /\ inbound' = Tail(inbound)
    /\ received' = Append(received, FrameClass(Head(inbound)))
    /\ LET id == Decode(Head(inbound)).liveview_id
       IN \E ok \in Outcomes :
            /\ nFaults' = IF ok THEN nFaults ELSE nFaults + 1
            /\ SessionBroadcast("mount", liveview_local_topic(id, "mounted"), Unit, ok)
            /\ mount_log' = Append(mount_log, [id |-> id, mounted |-> ok,
                                               initial |-> "pending", sent |-> "pending"])
            /\ IF TryOk(ok)
               THEN /\ pc' = "mount_wait"
                    /\ liveview_id' = id
                    /\ initial_render_stream' = [open |-> TRUE, buf |-> <<>>, closed |-> FALSE]
               ELSE /\ pc' = "select"
                    /\ liveview_id' = NoView
                    /\ initial_render_stream' = NoStream
    /\ UNCHANGED <<recvClosed, html, liveview_ids, outbound, nFrames, nDeltas,
                   published, handshake_lost, exit_keys>>

\* Mutant: the handler goes on without awaiting the initial render.
MountInitialRenderUnawaited ==
    /\ pc = "mount_wait"
    /\ html' = NoHtml
    /\ pc' = "mount_sub"
    /\ UNCHANGED <<diff_streams, inbound, recvClosed, liveview_id, liveview_ids,
                   initial_render_stream, outbound, broadcasts, nFrames, nFaults,
                   nDeltas, published, mounted_log, handshake_lost, received,
                   mount_log, exit_keys>>

\* initial_render_stream.next() yields the payload.
MountInitialRender ==
    /\ pc = "mount_wait"
    /\ initial_render_stream.buf # <<>>
    /\ html' = Head(initial_render_stream.buf)
    /\ initial_render_stream' = [initial_render_stream EXCEPT !.buf = Tail(@)]
    /\ pc' = "mount_sub"
    /\ UNCHANGED <<diff_streams, inbound, recvClosed, liveview_id, liveview_ids,
                   outbound, broadcasts, nFrames, nFaults, nDeltas, published, mounted_log,
                   handshake_lost, received, mount_log, exit_keys>>

\* Mutant: the handler goes on to subscribe although the stream yielded None.
MountInitialClosedContinues ==
    /\ pc = "mount_wait"
    /\ initial_render_stream.buf = <<>>
    /\ initial_render_stream.closed
    /\ html' = NoHtml
    /\ pc' = "mount_sub"
    /\ UNCHANGED <<diff_streams, inbound, recvClosed, liveview_id, liveview_ids,
                   initial_render_stream, outbound, broadcasts, nFrames, nFaults,
                   nDeltas, published, mounted_log, handshake_lost, received,
                   mount_log, exit_keys>>

\* initial_render_stream.next() yields None: the handler returns None.
MountInitialClosed ==
    /\ pc = "mount_wait"
    /\ initial_render_stream.buf = <<>>
    /\ initial_render_stream.closed
    /\ pc' = "select"
    /\ liveview_id' = NoView
    /\ initial_render_stream' = NoStream
    /\ UNCHANGED <<diff_streams, inbound, recvClosed, html, liveview_ids, outbound,
                   broadcasts, nFrames, nFaults, nDeltas, published, mounted_log,
                   handshake_lost, received, mount_log, exit_keys>>

\* The subscription to "rendered" is opened and inserted into the mapping, and
\* the handler returns Some((liveview_id, msg)).
MountSubscribe ==
    /\ pc = "mount_sub"
    /\ diff_streams' = StreamMapInsert(diff_streams, liveview_id, <<>>)
    /\ initial_render_stream' = NoStream
    /\ pc' = "send_i"
    /\ UNCHANGED <<inbound, recvClosed, liveview_id, html, liveview_ids, outbound,
                   broadcasts, nFrames, nFaults, nDeltas, published, mounted_log,
                   handshake_lost, received, mount_log, exit_keys>>

\* send_message_to_socket(liveview_id, "i", html): the loop breaks when the
\* write fails.
SendInitial ==
    /\ pc = "send_i"
    /\ \E ok \in Outcomes :
         /\ nFaults' = IF ok THEN nFaults ELSE nFaults + 1
         /\ mount_log' = [mount_log EXCEPT ![Len(mount_log)].sent =
                              IF ok THEN "ok" ELSE "failed"]
         /\ IF ok
            THEN /\ outbound' = Append(outbound, Envelope(liveview_id, INITIAL_RENDER_TOPIC, html))
                 /\ pc' = "select"
                 /\ UNCHANGED <<liveview_ids, exit_keys>>
            ELSE /\ outbound' = outbound
                 /\ Break
    /\ liveview_id' = NoView
    /\ html' = NoHtml
    /\ UNCHANGED <<diff_streams, inbound, recvClosed, initial_render_stream,
                   broadcasts, nFrames, nDeltas, published, mounted_log,
                   handshake_lost, received>>

\* state.diff_streams.next() yields (liveview_id, diff), sent as an "r" frame:
\* the loop breaks when the write fails.
DiffNext(i) ==
    /\ PollsDiffStreams(pc)
    /\ i \in DOMAIN diff_streams
    /\ diff_streams[i].buf # <<>>
    /\ diff_streams' = [diff_streams EXCEPT ![i].buf = Tail(@)]
    /\ LET next == FanIn(diff_streams[i])
       IN \E ok \in Outcomes :
            /\ nFaults' = IF ok THEN nFaults ELSE nFaults + 1
            /\ IF ok
               THEN /\ outbound' = Append(outbound,
                                           Envelope(next[1], RENDERED_TOPIC, next[2]))
                    /\ UNCHANGED <<pc, liveview_ids, exit_keys>>
               ELSE /\ outbound' = outbound
                    /\ pc' = "cleanup"
                    /\ liveview_ids' = CleanupIds(diff_streams')
                    /\ exit_keys' = KeySet(diff_streams')
    /\ UNCHANGED <<inbound, recvClosed, liveview_id, initial_render_stream, html,
                   broadcasts, nFrames, nDeltas, published, mounted_log,
                   handshake_lost, received, mount_log>>

\* The poll of state.diff_streams finds a stream that has ended: its entry is
\* removed from the mapping.
DiffStreamEnded(i) ==
    /\ PollsDiffStreams(pc)
    /\ i \in DOMAIN diff_streams
    /\ diff_streams[i].buf = <<>>
    /\ diff_streams[i].ended
    /\ diff_streams' = SwapRemove(diff_streams, i)
    /\ UNCHANGED <<pc, inbound, recvClosed, liveview_id, initial_render_stream, html,
                   liveview_ids, outbound, broadcasts, nFrames, nFaults, nDeltas, published,
                   mounted_log, handshake_lost, received, mount_log, exit_keys>>

\* Both branches of the select! are disabled (socket.recv() yields None and the
\* mapping is empty) and it has no else branch: the select! panics, and the
\* task ends without reaching the cleanup.
SelectPanic ==
    /\ pc = "select"
    /\ inbound = <<>>
    /\ recvClosed
    /\ diff_streams = <<>>
    /\ pc' = "panicked"
    /\ UNCHANGED <<diff_streams, inbound, recvClosed, liveview_id,
                   initial_render_stream, html, liveview_ids, outbound, broadcasts,
                   nFrames, nFaults, nDeltas, published, mounted_log, handshake_lost, received,
                   mount_log, exit_keys>>

\* Mutant: the cleanup loop stops at the first broadcast that fails.
CleanupBroadcastAborts ==
    /\ pc = "cleanup"
    /\ liveview_ids # <<>>
    /\ \E ok \in Outcomes :
         /\ nFaults' = IF ok THEN nFaults ELSE nFaults + 1
         /\ liveview_ids' = IF ok THEN Tail(liveview_ids) ELSE <<>>
         /\ broadcasts' = Append(broadcasts,
            [at |-> "cleanup",
             topic |-> liveview_local_topic(Head(liveview_ids), "socket-disconnected"),
             payload |-> Unit, ok |-> ok])
    /\ UNCHANGED <<pc, diff_streams, inbound, recvClosed, liveview_id,
                   initial_render_stream, html, outbound, nFrames, nDeltas, published,
                   mounted_log, handshake_lost, received, mount_log, exit_keys>>

\* One pass of the cleanup loop: broadcast "socket-disconnected" for the next
\* identifier, the outcome ignored.
CleanupBroadcast ==
    /\ pc = "cleanup"
    /\ liveview_ids # <<>>
    /\ liveview_ids' = Tail(liveview_ids)
    /\ \E ok \in Outcomes :
         /\ nFaults' = IF ok THEN nFaults ELSE nFaults + 1
         /\ broadcasts' = Append(broadcasts,
            [at |-> "cleanup",
             topic |-> liveview_local_topic(Head(liveview_ids), "socket-disconnected"),
             payload |-> Unit, ok |-> ok])
    /\ UNCHANGED <<pc, diff_streams, inbound, recvClosed, liveview_id,
                   initial_render_stream, html, outbound, nFrames, nDeltas, published,
                   mounted_log, handshake_lost, received, mount_log, exit_keys>>

\* handle_socket returns: the state and the connection are dropped.
CleanupDone ==
    /\ pc = "cleanup"
    /\ liveview_ids = <<>>
    /\ pc' = "closed"
    /\ diff_streams' = <<>>
    /\ UNCHANGED <<inbound, recvClosed, liveview_id, initial_render_stream, html,
                   liveview_ids, outbound, broadcasts, nFrames, nFaults, nDeltas, published,
                   mounted_log, handshake_lost, received, mount_log, exit_keys>>

SessionStep ==
    \/ RecvError
    \/ RecvMalformed
    \/ RecvEvent
    \/ RecvMount
    \/ MountInitialRender
    \/ MountInitialClosed
    \/ MountSubscribe
    \/ SendInitial
    \/ \E i \in 1..Len(diff_streams) : DiffNext(i)
    \/ \E i \in 1..Len(diff_streams) : DiffStreamEnded(i)
    \/ SelectPanic
    \/ CleanupBroadcast
    \/ CleanupDone

Next ==
    \/ \E f \in Frames : ClientSend(f)
    \/ ClientClose
    \/ EngineInitialRender
    \/ EngineCloseInitial
    \/ \E v \in Views : EngineRendered(v)
    \/ \E i \in 1..Len(diff_streams) : EngineEndStream(i)
    \/ SessionStep

Spec == Init /\ [][Next]_vars

\* ---------------------------------------------------------------- claims
\* The "r" frames written for view v, and their payloads.
RFrames(v) == SelectSeq(outbound, LAMBDA f : f[1] = v /\ f[2] = RENDERED_TOPIC)
RPayloads(v) == [k \in DOMAIN RFrames(v) |-> RFrames(v)[k][3]]
\* The number of "i" frames written for view v.
ICount(v) ==
    Cardinality({k \in DOMAIN outbound :
                    outbound[k][1] = v /\ outbound[k][2] = INITIAL_RENDER_TOPIC})
Count(seq, x) == Cardinality({k \in DOMAIN seq : seq[k] = x})
\* The mount frames dispatched for view v, and those among them for which the
\* "mounted" broadcast succeeded, the initial render arrived and the "i" frame
\* was written.
MountsOf(v) == {k \in DOMAIN mount_log : mount_log[k].id = v}
SuccessfulMountsOf(v) ==
    {k \in MountsOf(v) : /\ mount_log[k].mounted
                         /\ mount_log[k].initial = "payload"
                         /\ mount_log[k].sent = "ok"}
\* The broadcasts the cleanup made on topic(v, "socket-disconnected").
DisconnectedCount(v) ==
    Cardinality({k \in DOMAIN broadcasts :
                    /\ broadcasts[k].at = "cleanup"
                    /\ broadcasts[k].topic = liveview_local_topic(v, "socket-disconnected")})
\* View v was never inserted into the mapping of the session.
NeverMounted(v) == \A k \in MountsOf(v) : mount_log[k].initial # "payload"

\* C1: once the loop has exited and the cleanup has run, exactly one
\* "socket-disconnected" broadcast has been made for every view that was in the
\* mapping when the loop exited, none for any other view, and never one for a
\* view that was never mounted on the session.
C1_CleanupOncePerMountedView ==
    \A v \in Views :
        /\ pc = "closed" => DisconnectedCount(v) = (IF v \in exit_keys THEN 1 ELSE 0)
        /\ DisconnectedCount(v) <= (IF v \in exit_keys THEN 1 ELSE 0)
        /\ NeverMounted(v) => DisconnectedCount(v) = 0

C1_Witness ==
    /\ pc = "closed"
    /\ exit_keys = {"V1"}
    /\ DisconnectedCount("V1") = 1
    /\ NeverMounted("V2")

\* C2: once the inbound side of the connection is closed (socket.recv() yields
\* end-of-stream), the session goes on to the cleanup by itself: it does not
\* panic, and at the select! it has a next step to take, whatever the state of
\* the delta subscriptions.
C2_CloseRunsCleanup ==
    (recvClosed /\ inbound = <<>>) =>
        /\ pc # "panicked"
        /\ pc = "select" => ENABLED SessionStep

\* C3: no delta that the engine broadcasts on topic(V, "rendered") after it
\* published V's initial render is lost during the mount handshake: each reaches
\* a subscription of the session.
C3_NoDeltaLostInHandshake == handshake_lost = {}

\* C4: no "r" frame for a view is written before an "i" frame for that view.
C4_InitialBeforeRendered ==
    \A k \in DOMAIN outbound :
        outbound[k][2] = RENDERED_TOPIC =>
            \E j \in 1..(k - 1) :
                outbound[j][2] = INITIAL_RENDER_TOPIC /\ outbound[j][1] = outbound[k][1]

C4_Witness ==
    \E k \in DOMAIN outbound : outbound[k][2] = RENDERED_TOPIC

\* C5 (as claimed): whenever no mount is being handled, every mount frame
\* dispatched for a view has produced exactly one "i" frame for it.
C5_OneInitialPerMountFrame ==
    pc = "select" => \A v \in Views : ICount(v) = Cardinality(MountsOf(v))

\* C5 (amended): the "i" frames written for a view are exactly one per mount
\* frame whose "mounted" broadcast succeeded, whose initial render arrived and
\* whose write succeeded; every other mount frame produced none.
C5_OneInitialPerSuccessfulMount ==
    \A v \in Views : ICount(v) = Cardinality(SuccessfulMountsOf(v))

C5_Witness ==
    /\ pc = "select"
    /\ Cardinality(MountsOf("V1")) = 2
    /\ Cardinality(SuccessfulMountsOf("V1")) = 1
    /\ ICount("V1") = 1

\* C6: when the session is back at the select! with nothing left in its delta
\* streams, the "r" frames written for each view carry exactly the payloads
\* broadcast on its "rendered" topic while it was mounted, each once and in order.
C6_EveryDeltaForwardedOnce ==
    (pc = "select" /\ \A k \in DOMAIN diff_streams : diff_streams[k].buf = <<>>) =>
        \A v \in Views : RPayloads(v) = mounted_log[v]

\* C7: the mapping never holds two entries for one view identifier, and no
\* payload is written in more "r" frames for a view than it was broadcast on the
\* view's "rendered" topic.
C7_NoDuplicateSubscription ==
    /\ \A j, k \in DOMAIN diff_streams :
          j # k => diff_streams[j].key # diff_streams[k].key
    /\ \A v \in Views : \A k \in DOMAIN RPayloads(v) :
          Count(RPayloads(v), RPayloads(v)[k]) <= Count(mounted_log[v], RPayloads(v)[k])

C7_Witness ==
    \E v \in Views : \E j, k, l \in DOMAIN outbound :
        /\ j < k /\ k < l
        /\ outbound[j][1] = v /\ outbound[j][2] = INITIAL_RENDER_TOPIC
        /\ outbound[k][1] = v /\ outbound[k][2] = INITIAL_RENDER_TOPIC
        /\ outbound[l][1] = v /\ outbound[l][2] = RENDERED_TOPIC

\* C8: every "r" frame tagged with a view carries a payload that was broadcast
\* on the "rendered" topic of that view.
C8_OwnDeltasOnly ==
    \A k \in DOMAIN outbound :
        outbound[k][2] = RENDERED_TOPIC =>
            \E n \in DOMAIN mounted_log[outbound[k][1]] :
                mounted_log[outbound[k][1]][n] = outbound[k][3]

C8_Witness ==
    /\ KeySet(diff_streams) = Views
    /\ \E k \in DOMAIN outbound :
          /\ outbound[k][1] = "V2"
          /\ outbound[k][2] = RENDERED_TOPIC
          /\ Count(mounted_log["V1"], outbound[k][3]) = 0

\* The step in which socket.recv() yields the frame at the head of inbound.
Receives == pc = "select" /\ inbound # <<>> /\ received' # received

\* C9: the step that receives a malformed frame writes no frame, makes no
\* broadcast, leaves the mapping as it is and leaves the session at the select!,
\* where the next frame is received.
C9_MalformedDropped ==
    [][(Receives /\ Head(inbound) \in MalformedFrames) =>
          /\ outbound' = outbound
          /\ broadcasts' = broadcasts
          /\ diff_streams' = diff_streams
          /\ pc' = "select"]_vars

C9_Witness ==
    \E j, k \in DOMAIN received :
        /\ j < k
        /\ received[j] = "malformed"
        /\ received[k] = "mount"
        /\ outbound # <<>>

\* The step that receives click frame f makes one broadcast, on
\* topic(liveview_id, e) with the payload given, writes no frame and leaves the
\* keys of the mapping and the position of the session unchanged.
ClickBroadcasts(f, payload) ==
    /\ \E ok \in BOOLEAN :
          broadcasts' = Append(broadcasts,
              [at |-> "event",
               topic |-> liveview_local_topic(f.liveview_id, f.data.e.val),
               payload |-> payload, ok |-> ok])
    /\ outbound' = outbound
    /\ Keys(diff_streams') = Keys(diff_streams)
    /\ pc' = "select"

IsClickFrame(f) == f \in ValidFrames /\ f.topic = "axum/live-click"

\* C10 (as claimed): a click frame is broadcast with its "d" value when "d" is
\* present, and with the empty marker when it is absent.
C10_ClickPayloadIsData ==
    [][(Receives /\ IsClickFrame(Head(inbound))) =>
          ClickBroadcasts(Head(inbound),
              IF Head(inbound).data.d.type = "absent" THEN Unit
              ELSE Head(inbound).data.d)]_vars

\* C10 (amended): a click frame is broadcast with its "d" value when "d" is
\* present and not null, and with the empty marker when it is absent or null.
C10_ClickPayloadIsNonNullData ==
    [][(Receives /\ IsClickFrame(Head(inbound))) =>
          ClickBroadcasts(Head(inbound),
              IF Head(inbound).data.d.type \in {"absent", "null"} THEN Unit
              ELSE Head(inbound).data.d)]_vars

C10_Witness ==
    /\ \E k \in DOMAIN received : received[k] = "click_null"
    /\ \E k \in DOMAIN received : received[k] = "click_data"
    /\ \E k \in DOMAIN broadcasts : broadcasts[k].payload = JObj
    /\ \E k \in DOMAIN broadcasts : broadcasts[k].at = "event" /\ broadcasts[k].payload = Unit

IsInputFrame(f) == f \in ValidFrames /\ f.topic = "axum/live-input"

\* C11: the step that receives an input frame for view V with event name e and
\* value v makes exactly one broadcast, on topic(V, e) with the raw string v as
\* payload, writes no frame and leaves the keys of the mapping and the position
\* of the session unchanged.
C11_InputBroadcastsRawValue ==
    [][(Receives /\ IsInputFrame(Head(inbound))) =>
          /\ \E ok \in BOOLEAN :
                broadcasts' = Append(broadcasts,
                    [at |-> "event",
                     topic |-> liveview_local_topic(Head(inbound).liveview_id,
                                                    Head(inbound).data.e.val),
                     payload |-> Raw(Head(inbound).data.v.val), ok |-> ok])
          /\ outbound' = outbound
          /\ Keys(diff_streams') = Keys(diff_streams)
          /\ pc' = "select"]_vars

C11_Witness ==
    /\ \E k \in DOMAIN received : received[k] = "input"
    /\ \E k \in DOMAIN broadcasts :
          /\ broadcasts[k].at = "event"
          /\ broadcasts[k].topic = liveview_local_topic("V1", "inc")
          /\ broadcasts[k].payload = Raw("abc")
    /\ KeySet(diff_streams) = {"V1"}

\* The names of the lifecycle topics of a view.
LifecycleNames == {"mounted", "initial-render", "rendered", "socket-disconnected"}

\* C12: no broadcast that the session makes for a click or an input frame is on
\* a lifecycle topic of a view, and every payload written in an "r" frame was
\* broadcast by the rendering engine, never by the session for a client frame.
C12_NoLifecycleCollision ==
    /\ \A k \in DOMAIN broadcasts :
          broadcasts[k].at = "event" => broadcasts[k].topic[2] \notin LifecycleNames
    /\ \A k \in DOMAIN outbound :
          outbound[k][2] = RENDERED_TOPIC => outbound[k][3].type = "diff"

\* A delta is available on an active subscription of the mapping.
DeltaAvailable == \E i \in DOMAIN diff_streams : diff_streams[i].buf # <<>>

\* C13: while the session is Running, a frame that has arrived and a delta that
\* is available are never left waiting on the environment: the loop itself has
\* a step to take, also while the mount handshake of another view awaits its
\* initial-render payload.
C13_NeitherSourceStarves ==
    /\ (pc \in Running /\ DeltaAvailable) => ENABLED SessionStep
    /\ (pc \in Running /\ inbound # <<>>) => ENABLED SessionStep

\* C14: the steps of the mount handshake for view V come in this order.  The
\* session starts to await the initial render only from the select!, in a step
\* that has opened the one-shot subscription and made the "mounted" broadcast,
\* with success; it goes on to subscribe only by taking the payload off the
\* one-shot subscription; V enters the mapping only in the step after that,
\* with the payload in hand; and the "i" frame is written only then, with V in
\* the mapping, carrying that payload.
C14_HandshakeOrder ==
    [][/\ (pc # "mount_wait" /\ pc' = "mount_wait") =>
             /\ pc = "select"
             /\ ~initial_render_stream.open
             /\ initial_render_stream' = [open |-> TRUE, buf |-> <<>>, closed |-> FALSE]
             /\ broadcasts' = Append(broadcasts,
                   [at |-> "mount", topic |-> liveview_local_topic(liveview_id', "mounted"),
                    payload |-> Unit, ok |-> TRUE])
             /\ Keys(diff_streams') = Keys(diff_streams)
             /\ outbound' = outbound
       /\ (pc # "mount_sub" /\ pc' = "mount_sub") =>
             /\ pc = "mount_wait"
             /\ initial_render_stream.buf # <<>>
             /\ html' = Head(initial_render_stream.buf)
             /\ html' = Html(liveview_id)
             /\ diff_streams' = diff_streams
             /\ outbound' = outbound
       /\ (pc # "send_i" /\ pc' = "send_i") =>
             /\ pc = "mount_sub"
             /\ liveview_id \in KeySet(diff_streams')
             /\ html' = html
             /\ outbound' = outbound
       /\ (KeySet(diff_streams') \ KeySet(diff_streams) # {}) =>
             /\ pc = "mount_sub"
             /\ html = Html(liveview_id)
             /\ KeySet(diff_streams') = KeySet(diff_streams) \cup {liveview_id}
       /\ (Len(outbound') > Len(outbound)
              /\ outbound'[Len(outbound')][2] = INITIAL_RENDER_TOPIC) =>
             /\ pc = "send_i"
             /\ liveview_id \in KeySet(diff_streams)
             /\ outbound' = Append(outbound, <<liveview_id, INITIAL_RENDER_TOPIC,
                                                Html(liveview_id)>>)]_vars

C14_Witness ==
    /\ pc = "select"
    /\ \E k \in DOMAIN mount_log :
          mount_log[k] = [id |-> "V2", mounted |-> TRUE, initial |-> "payload", sent |-> "ok"]
    /\ outbound # <<>>
    /\ outbound[Len(outbound)] = <<"V2", INITIAL_RENDER_TOPIC, Html("V2")>>
    /\ "V2" \in KeySet(diff_streams)

\* The step in which the write of an "r" frame fails: a delta is taken off a
\* subscription and nothing is written.
RenderedWriteFails ==
    /\ pc = "select"
    /\ outbound' = outbound
    /\ Len(diff_streams') = Len(diff_streams)
    /\ \E i \in DOMAIN diff_streams :
          /\ diff_streams[i].buf # <<>>
          /\ diff_streams'[i].buf = Tail(diff_streams[i].buf)

\* The step in which the write of the "i" frame fails: the session leaves the
\* send without having written.
InitialWriteFails == pc = "send_i" /\ pc' # "send_i" /\ outbound' = outbound

\* C15: the step in which socket.recv() yields an error, or the write of an "i"
\* or "r" frame fails, takes the session out of Running, to the cleanup; and
\* once out of Running the session receives no frame, writes no frame, never
\* returns to Running, and makes no broadcast other than the
\* "socket-disconnected" broadcasts of the cleanup.
C15_TransportErrorIsFatal ==
    [][/\ (received' = Append(received, "error")) => pc' = "cleanup"
       /\ InitialWriteFails => pc' = "cleanup"
       /\ RenderedWriteFails => pc' = "cleanup"
       /\ (pc \notin Running) =>
             /\ pc' \notin Running
             /\ received' = received
             /\ inbound' = inbound
             /\ outbound' = outbound
             /\ \/ broadcasts' = broadcasts
                \/ /\ Len(broadcasts') = Len(broadcasts) + 1
                   /\ SubSeq(broadcasts', 1, Len(broadcasts)) = broadcasts
                   /\ broadcasts'[Len(broadcasts')].at = "cleanup"
                   /\ broadcasts'[Len(broadcasts')].topic[2] = "socket-disconnected"]_vars

\* The write of an "r" frame failed, and the cleanup has run.
C15_Witness ==
    /\ pc = "closed"
    /\ mounted_log["V1"] # <<>>
    /\ RFrames("V1") = <<>>
    /\ \A k \in DOMAIN received : received[k] # "error"
    /\ \A k \in DOMAIN mount_log : mount_log[k].sent = "ok"
    /\ DisconnectedCount("V1") = 1

\* The step in which the awaited one-shot subscription closes without a value:
\* the session leaves the wait with nothing in the stream.
InitialClosesEmpty ==
    pc = "mount_wait" /\ pc' # "mount_wait" /\ initial_render_stream.buf = <<>>

\* The step leaves the session at the select! and changes nothing of what the
\* session holds or has emitted.
FailsSilently ==
    /\ pc' = "select"
    /\ outbound' = outbound
    /\ broadcasts' = broadcasts
    /\ diff_streams' = diff_streams
    /\ inbound' = inbound

\* The views for which a mount failed because the one-shot subscription closed.
ClosedMountViews == {mount_log[k].id : k \in {j \in DOMAIN mount_log : mount_log[j].initial = "closed"}}

\* At the select!, a frame that has arrived can be received.
ReceiveEnabled ==
    (pc = "select" /\ inbound # <<>>) => ENABLED (RecvMalformed \/ RecvEvent \/ RecvMount)

\* C16 (as claimed): a mount of V whose one-shot subscription closes without a
\* value fails silently, the session stays at the select! and receives the
\* frames that follow, and no "socket-disconnected" broadcast is ever made for V.
C16_ClosedMountNeverDisconnects ==
    /\ [][InitialClosesEmpty => FailsSilently]_vars
    /\ [](ReceiveEnabled /\ \A v \in ClosedMountViews : DisconnectedCount(v) = 0)

\* C16 (amended): a mount of V whose one-shot subscription closes without a
\* value fails silently, the session stays at the select! and receives the
\* frames that follow; a "socket-disconnected" broadcast is made for V only if
\* V is in the mapping at the exit from another, successful mount, and none if
\* no mount of V has succeeded.
C16_ClosedMountChangesNothing ==
    /\ [][InitialClosesEmpty => FailsSilently]_vars
    /\ [](/\ ReceiveEnabled
          /\ \A v \in ClosedMountViews :
                /\ DisconnectedCount(v) <= (IF v \in exit_keys THEN 1 ELSE 0)
                /\ NeverMounted(v) => DisconnectedCount(v) = 0)

\* The mount of V1 failed on a closed one-shot subscription, V2 was mounted
\* after it, and the cleanup notified V2 only.
C16_Witness ==
    /\ pc = "closed"
    /\ Len(mount_log) = 2
    /\ mount_log[1].id = "V1" /\ mount_log[1].initial = "closed"
    /\ mount_log[2].id = "V2" /\ mount_log[2].sent = "ok"
    /\ DisconnectedCount("V1") = 0
    /\ DisconnectedCount("V2") = 1

EntrySet(streams) == {streams[i] : i \in DOMAIN streams}

\* The step in which the poll of the mapping drops an entry.
StreamEnds == pc = "select" /\ Len(diff_streams') < Len(diff_streams)

C18_CleanupIsBestEffort ==
    /\ pc = "cleanup" => ENABLED (CleanupBroadcast \/ CleanupDone)
    /\ pc \in {"cleanup", "closed"} =>
          \A v \in Views :
              DisconnectedCount(v) + Count(liveview_ids, v)
                  = (IF v \in exit_keys THEN 1 ELSE 0)

\* Two views were notified, the first broadcast failed and the second was made.
C18_Witness ==
    /\ pc = "closed"
    /\ exit_keys = Views
    /\ \E j, k \in DOMAIN broadcasts :
          /\ j < k
          /\ broadcasts[j].at = "cleanup" /\ ~broadcasts[j].ok
          /\ broadcasts[k].at = "cleanup" /\ broadcasts[k].ok

\* The views of the mounts whose handshake completed and whose "i" frame could
\* not be written.
UnsentMountViews == {mount_log[k].id : k \in {j \in DOMAIN mount_log : mount_log[j].sent = "failed"}}

\* C19: when the handshake of a mount of V has completed and the write of its
\* "i" frame fails, the session is at the cleanup with V among the keys
\* collected at the exit, no "i" frame was written for that mount, and the
\* cleanup makes exactly one "socket-disconnected" broadcast for V.
C19_UnsentMountIsStillNotified ==
    \A v \in UnsentMountViews :
        /\ pc \in {"cleanup", "closed"}
        /\ mount_log[Len(mount_log)].id = v
        /\ mount_log[Len(mount_log)].sent = "failed"
        /\ v \in exit_keys
        /\ DisconnectedCount(v) + Count(liveview_ids, v) = 1
        /\ pc = "closed" => DisconnectedCount(v) = 1
        /\ ICount(v) < Cardinality(MountsOf(v))

\* The only mount of the session lost its "i" frame, and V1 was notified.
C19_Witness ==
    /\ pc = "closed"
    /\ UnsentMountViews = {"V1"}
    /\ outbound = <<>>
    /\ DisconnectedCount("V1") = 1

\* The step in which the broadcast made for a client frame fails.
FrameBroadcastFails ==
    /\ Len(broadcasts') > Len(broadcasts)
    /\ broadcasts'[Len(broadcasts')].at \in {"event", "mount"}
    /\ ~broadcasts'[Len(broadcasts')].ok

\* The frames received that decoded to a command.
CommandsReceived ==
    Cardinality({k \in DOMAIN received : received[k] \notin {"malformed", "error"}})

\* The broadcasts made for client frames.
FrameBroadcasts ==
    Cardinality({k \in DOMAIN broadcasts : broadcasts[k].at \in {"event", "mount"}})

\* C20: the step in which the broadcast for a click, input or mount frame fails
\* writes no frame, leaves the mapping as it is and leaves the session at the
\* select!, without an open one-shot subscription to await; exactly one
\* broadcast has been made for every command received, failed or not; and a
\* mount whose "mounted" broadcast failed was never answered and never sent.
C20_FailedBroadcastIsDropped ==
    /\ [][FrameBroadcastFails =>
             /\ pc = "select"
             /\ pc' = "select"
             /\ outbound' = outbound
             /\ diff_streams' = diff_streams
             /\ ~initial_render_stream'.open
             /\ broadcasts' = Append(broadcasts, broadcasts'[Len(broadcasts')])]_vars
    /\ [](/\ FrameBroadcasts = CommandsReceived
          /\ \A k \in DOMAIN mount_log :
                ~mount_log[k].mounted =>
                    mount_log[k].initial = "pending" /\ mount_log[k].sent = "pending")

\* The "mounted" broadcast of a mount failed, and the click frame after it was
\* received and broadcast.
C20_Witness ==
    /\ pc = "select"
    /\ Len(broadcasts) = 2
    /\ broadcasts[1].at = "mount" /\ ~broadcasts[1].ok
    /\ broadcasts[2].at = "event" /\ broadcasts[2].ok
    /\ outbound = <<>>
    /\ diff_streams = <<>>

====
